---- MODULE Spec2Model ----
(***************************************************************************)
(* Model of the JNI bridge jni_amcu_template.cpp: the AMCU driver          *)
(* singleton, the two callback slots, the JavaVM handle, and every entry   *)
(* point and notifier of the bridge.  The external AMCU driver and the     *)
(* Java runtime are modelled by the calls the bridge makes on them.        *)
(***************************************************************************)
EXTENDS Integers, Sequences, FiniteSets, TLC

VARIABLES
    g_amcu,                 \* static AMCU *g_amcu: NULL or the instance id
    g_limitSwitchCallback,  \* static jobject: NULL or a global reference id
    g_driveActionCallback,  \* static jobject: NULL or a global reference id
    g_jvm,                  \* static JavaVM *g_jvm: NULL or VM
    constructed,            \* number of `new AMCU()` executed so far
    driverCalls,            \* number of member calls made on a driver instance
    driverCall,             \* the last member call made on a driver instance
    calls,                  \* number of driver-surface entry points invoked
    initCalls,              \* number of topology-initializer calls invoked
    lastCall,               \* the last bridge function invoked, with its jint inputs
    ret,                    \* what the last bridge function returned
    globalRefs,             \* JNI global references created: <<[obj, deletes]>>
    jniTrace,               \* the JNI calls made by the last bridge function
    attached,               \* is the driver's thread attached to the VM
    crashed,                \* the process died (call through a null JNIEnv)
    pre,                    \* the slots as they were when the last function was entered
    lastReg,                \* per slot, the argument of the latest register call
    pc,                     \* per thread, its position (interleaved specifications)
    loc,                    \* per thread, its locals (interleaved specifications)
    staleUse                \* JNI functions that were handed a released reference

driverVars == <<g_amcu, constructed, driverCalls, driverCall, calls, initCalls, ret>>
cbVars     == <<g_limitSwitchCallback, g_driveActionCallback, globalRefs, jniTrace,
                attached, crashed, pre, lastReg, staleUse>>
raceVars   == <<pc, loc>>
vars       == <<driverVars, cbVars, raceVars, g_jvm, lastCall>>

----------------------------------------------------------------------------
(* Bounds of the model *)
MaxCalls == 3       \* driver-surface entry calls per behaviour
MaxRefs == 3        \* global references created per behaviour
MaxRaceCalls == 2   \* bridge calls each thread starts in the interleaved specs

(* Values *)
NULL == 0            \* nullptr
VM == 1
Void == "void"
NoCall == [inst |-> NULL, op |-> "none", args |-> <<>>]

\* jint inputs around the 8-bit and 16-bit boundaries and the 32-bit extremes
JINT_MIN == -2147483647 - 1        \* the least 32-bit jint

JInts == {JINT_MIN, -129, -128, -1, 0, 127, 128, 256, 65536, 2147483647}
MotorIds == {0, 1, 2, 3}              \* codes of the external enum Motor
Radii == {5, 261}                     \* wheel radius inputs
Dists == {30, 65566, -1}              \* robot radius / wheel distance inputs
Layouts == {<<0, 1, 2, 3>>, <<3, 2, 1, 0>>}   \* motor assignments
AxisVals == {-100, 100}               \* axis speeds: reverse and forward
Flags == {0, 1}
Bounces == {-1, 20, 256}
Times == {2, 256}
Gains == {0, 1}                       \* stand-ins for jfloat PID gains
Readings == {-5, 0, 1200}             \* what the driver's getters may return

----------------------------------------------------------------------------
(* static_cast<uint8_t>(jint), static_cast<uint16_t>(jint),
   static_cast<int8_t>(jint): reduction modulo 2^w, two's complement *)
U8_saturate(x) == IF x > 255 THEN 255 ELSE IF x < 0 THEN 0 ELSE x

U8(x) == x % 256

U16(x) == x % 65536

S8(x) == LET u == x % 256 IN IF u > 127 THEN u - 256 ELSE u

\* static_cast<Motor>(jint) of a code of the enum keeps the code
ToMotor(x) == x

----------------------------------------------------------------------------
Init ==
    /\ g_amcu = NULL
    /\ g_limitSwitchCallback = NULL
    /\ g_driveActionCallback = NULL
    /\ g_jvm = NULL
    /\ constructed = 0
    /\ driverCalls = 0
    /\ driverCall = NoCall
    /\ calls = 0
    /\ initCalls = 0
    /\ lastCall = [op |-> "none", args |-> <<>>]
    /\ ret = Void
    /\ globalRefs = <<>>
    /\ jniTrace = <<>>
    /\ attached = FALSE
    /\ crashed = FALSE
    /\ pre = [ls |-> NULL, da |-> NULL, amcu |-> NULL]
    /\ lastReg = [ls |-> NULL, da |-> NULL]
    /\ pc = [t \in {"m1", "m2", "drv"} |-> "idle"]
    /\ loc = [t \in {"m1", "m2", "drv"} |-> [op |-> "none", ptr |-> NULL, cb |-> NULL]]
    /\ staleUse = {}

\* jint JNI_OnLoad(JavaVM *vm, void *)
JNI_OnLoad ==
    /\ ~crashed
    /\ g_jvm = NULL
    /\ g_jvm' = VM
    /\ lastCall' = [op |-> "JNI_OnLoad", args |-> <<>>]
    /\ UNCHANGED <<driverVars, cbVars, raceVars>>

\* A managed caller enters a driver-surface native method
Enter(op, args) ==
    /\ ~crashed
    /\ calls < MaxCalls
    /\ calls' = calls + 1
    /\ lastCall' = [op |-> op, args |-> args]
    /\ UNCHANGED <<cbVars, raceVars, g_jvm>>

\* if (!g_amcu) g_amcu = new AMCU();
EnsureDriver_always ==
    /\ g_amcu' = constructed + 1
    /\ constructed' = constructed + 1

EnsureDriver ==
    IF g_amcu = NULL
    THEN /\ g_amcu' = constructed + 1
         /\ constructed' = constructed + 1
    ELSE UNCHANGED <<g_amcu, constructed>>

\* g_amcu->init...(...): the configurator call that follows EnsureDriver
Configure(op, args) ==
    /\ driverCall' = [inst |-> g_amcu', op |-> op, args |-> args]
    /\ driverCalls' = driverCalls + 1
    /\ initCalls' = initCalls + 1
    /\ ret' = Void

\* if (g_amcu) g_amcu->op(args);
Delegate_unguarded(op, args) ==
    /\ driverCall' = [inst |-> g_amcu, op |-> op, args |-> args]
    /\ driverCalls' = driverCalls + 1
    /\ ret' = Void
    /\ UNCHANGED <<g_amcu, constructed, initCalls>>

Delegate(op, args) ==
    /\ IF g_amcu # NULL
       THEN /\ driverCall' = [inst |-> g_amcu, op |-> op, args |-> args]
            /\ driverCalls' = driverCalls + 1
       ELSE UNCHANGED <<driverCall, driverCalls>>
    /\ ret' = Void
    /\ UNCHANGED <<g_amcu, constructed, initCalls>>

\* if (g_amcu) return g_amcu->op(motor); return 0;
Query(op, args, reading) ==
    /\ IF g_amcu # NULL
       THEN /\ driverCall' = [inst |-> g_amcu, op |-> op, args |-> args]
            /\ driverCalls' = driverCalls + 1
            /\ ret' = reading
       ELSE /\ UNCHANGED <<driverCall, driverCalls>>
            /\ ret' = 0
    /\ UNCHANGED <<g_amcu, constructed, initCalls>>

----------------------------------------------------------------------------
(* Topology initializers *)
initOmniDriveBaseNative(wheelRadius, robotRadius, motorLeft, motorRight, motorBack) ==
    /\ Enter("initOmniDriveBase",
             <<wheelRadius, robotRadius, motorLeft, motorRight, motorBack>>)
    /\ EnsureDriver
    /\ Configure("initOmniDriveBase",
                 <<U8(wheelRadius), U16(robotRadius),
                   ToMotor(motorLeft), ToMotor(motorRight), ToMotor(motorBack)>>)

initMecanumDriveBaseNative(wheelRadius, robotX, robotY, motorFrontLeft, motorFrontRight, motorBackLeft, motorBackRight) ==
    /\ Enter("initMecanumDriveBase",
             <<wheelRadius, robotX, robotY, motorFrontLeft, motorFrontRight,
               motorBackLeft, motorBackRight>>)
    /\ EnsureDriver
    /\ Configure("initMecanumDriveBase",
                 <<U8(wheelRadius), U16(robotX), U16(robotY),
                   ToMotor(motorFrontLeft), ToMotor(motorFrontRight),
                   ToMotor(motorBackLeft), ToMotor(motorBackRight)>>)

initDifferentialDriveBase2WheelNative(wheelRadius, wheelDistance, motorLeft, motorRight) ==
    /\ Enter("initDifferentialDriveBase2Wheel",
             <<wheelRadius, wheelDistance, motorLeft, motorRight>>)
    /\ EnsureDriver
    /\ Configure("initDifferentialDriveBase2Wheel",
                 <<U8(wheelRadius), U16(wheelDistance),
                   ToMotor(motorLeft), ToMotor(motorRight)>>)

initDifferentialDriveBase4WheelNative(wheelRadius, wheelDistance, motorFrontLeft, motorFrontRight, motorBackLeft, motorBackRight) ==
    /\ Enter("initDifferentialDriveBase4Wheel",
             <<wheelRadius, wheelDistance, motorFrontLeft, motorFrontRight,
               motorBackLeft, motorBackRight>>)
    /\ EnsureDriver
    /\ Configure("initDifferentialDriveBase4Wheel",
                 <<U8(wheelRadius), U16(wheelDistance),
                   ToMotor(motorFrontLeft), ToMotor(motorFrontRight),
                   ToMotor(motorBackLeft), ToMotor(motorBackRight)>>)

(* Driver operations *)
setPIDNative(kp, ki, kd) ==
    /\ Enter("setPID", <<kp, ki, kd>>)
    /\ Delegate("setPID", <<kp, ki, kd>>)

setLimitSwitchesNative(motor, high, enable, mode, bounce) ==
    /\ Enter("setLimitSwitches", <<motor, high, enable, mode, bounce>>)
    /\ Delegate("setLimitSwitches",
                <<ToMotor(motor), U8(high), U8(enable), U8(mode), U8(bounce)>>)

setRPMNative(motor, rpm) ==
    /\ Enter("setRPM", <<motor, rpm>>)
    /\ Delegate("setRPM", <<ToMotor(motor), S8(rpm)>>)

setSpeedNative(motor, percent) ==
    /\ Enter("setSpeed", <<motor, percent>>)
    /\ Delegate("setSpeed", <<ToMotor(motor), S8(percent)>>)

resetEncoderNative(motor) ==
    /\ Enter("resetEncoder", <<motor>>)
    /\ Delegate("resetEncoder", <<ToMotor(motor)>>)

stopNative ==
    /\ Enter("stop", <<>>)
    /\ Delegate("stop", <<>>)

getEncoderNative(motor, reading) ==
    /\ Enter("getEncoder", <<motor>>)
    /\ Query("getEncoder", <<ToMotor(motor)>>, reading)

getRPMNative(motor, reading) ==
    /\ Enter("getRPM", <<motor>>)
    /\ Query("getRPM", <<ToMotor(motor)>>, reading)

speedDriveNative(xSpeed, ySpeed, wSpeed) ==
    /\ Enter("speedDrive", <<xSpeed, ySpeed, wSpeed>>)
    /\ Delegate("speedDrive", <<U8(xSpeed), U8(ySpeed), U8(wSpeed)>>)

timeDriveNative(xSpeed, ySpeed, wSpeed, timeS) ==
    /\ Enter("timeDrive", <<xSpeed, ySpeed, wSpeed, timeS>>)
    /\ Delegate("timeDrive", <<U8(xSpeed), U8(ySpeed), U8(wSpeed), U8(timeS)>>)

driveDistanceNative(xMeter, yMeter, omegaDegree) ==
    /\ Enter("driveDistance", <<xMeter, yMeter, omegaDegree>>)
    /\ Delegate("driveDistance", <<U8(xMeter), U8(yMeter), U16(omegaDegree)>>)

----------------------------------------------------------------------------
(* The driver surface, calls serialized: each entry point runs to completion *)
Next ==
    \/ JNI_OnLoad
    \/ \E wr \in Radii, rr \in Dists, m \in Layouts :
          initOmniDriveBaseNative(wr, rr, m[1], m[2], m[3])
    \/ \E wr \in Radii, rx \in Dists, ry \in Dists, m \in Layouts :
          initMecanumDriveBaseNative(wr, rx, ry, m[1], m[2], m[3], m[4])
    \/ \E wr \in Radii, wd \in Dists, m \in Layouts :
          initDifferentialDriveBase2WheelNative(wr, wd, m[1], m[2])
    \/ \E wr \in Radii, wd \in Dists, m \in Layouts :
          initDifferentialDriveBase4WheelNative(wr, wd, m[1], m[2], m[3], m[4])
    \/ \E kp \in Gains, ki \in Gains, kd \in Gains : setPIDNative(kp, ki, kd)
    \/ \E m \in MotorIds, h \in Flags, e \in Flags, md \in Flags, b \in Bounces :
          setLimitSwitchesNative(m, h, e, md, b)
    \/ \E m \in MotorIds, rpm \in JInts : setRPMNative(m, rpm)
    \/ \E m \in MotorIds, p \in JInts : setSpeedNative(m, p)
    \/ \E m \in MotorIds : resetEncoderNative(m)
    \/ stopNative
    \/ \E m \in MotorIds, r \in Readings : getEncoderNative(m, r)
    \/ \E m \in MotorIds, r \in Readings : getRPMNative(m, r)
    \/ \E x \in JInts, y \in AxisVals, w \in AxisVals : speedDriveNative(x, y, w)
    \/ \E x \in JInts, y \in AxisVals, w \in AxisVals, t \in Times :
          timeDriveNative(x, y, w, t)
    \/ \E x \in AxisVals, y \in AxisVals, o \in JInts : driveDistanceNative(x, y, o)

Spec == Init /\ [][Next]_vars

----------------------------------------------------------------------------
(* Callback slots *)

\* jobject arguments a managed caller may pass: Java objects (NULL for null)
Objs == {11, 12}

\* the no-argument void methods the class of each object declares
MethodsOf(o) ==
    IF o = 11 THEN {"onLimitSwitchTriggered"} ELSE {"onDriveAction"}

\* one JNI call: the function, the reference handed to it, its outcome
J(fn, ref, info) == [fn |-> fn, ref |-> ref, info |-> info]

\* a snapshot of the globals on entry of a callback function
Snapshot == [ls |-> g_limitSwitchCallback, da |-> g_driveActionCallback, amcu |-> g_amcu]

\* register*CallbackNative on a slot holding `cur`, argument `callback`;
\* `ok` is whether NewGlobalRef succeeds (it returns NULL when out of memory).
\*   if (cur) { env->DeleteGlobalRef(cur); cur = nullptr; }
\*   if (callback) { cur = env->NewGlobalRef(callback); }
RefsAfterRegister_leak(cur, callback, ok) ==
    IF callback # NULL /\ ok
    THEN Append(globalRefs, [obj |-> callback, deletes |-> 0])
    ELSE globalRefs

RefsAfterRegister(cur, callback, ok) ==
    LET released == IF cur # NULL
                    THEN [globalRefs EXCEPT ![cur].deletes = @ + 1]
                    ELSE globalRefs
    IN  IF callback # NULL /\ ok
        THEN Append(released, [obj |-> callback, deletes |-> 0])
        ELSE released

SlotAfterRegister_keep(cur, callback, ok) ==
    IF callback # NULL
    THEN IF ok THEN Len(globalRefs) + 1 ELSE NULL
    ELSE cur

SlotAfterRegister(cur, callback, ok) ==
    IF callback # NULL
    THEN IF ok THEN Len(globalRefs) + 1 ELSE NULL
    ELSE NULL

TraceOfRegister(cur, callback, ok) ==
    (IF cur # NULL THEN <<J("DeleteGlobalRef", cur, "released")>> ELSE <<>>)
    \o (IF callback # NULL
        THEN <<J("NewGlobalRef", SlotAfterRegister(cur, callback, ok),
                 IF ok THEN "created" ELSE "NULL")>>
        ELSE <<>>)

registerLimitSwitchCallbackNative(callback, ok) ==
    /\ ~crashed
    /\ (callback # NULL /\ ok) => Len(globalRefs) < MaxRefs
    /\ g_limitSwitchCallback' = SlotAfterRegister(g_limitSwitchCallback, callback, ok)
    /\ globalRefs' = RefsAfterRegister(g_limitSwitchCallback, callback, ok)
    /\ jniTrace' = TraceOfRegister(g_limitSwitchCallback, callback, ok)
    /\ pre' = Snapshot
    /\ lastReg' = [lastReg EXCEPT !.ls = callback]
    /\ lastCall' = [op |-> "registerLimitSwitchCallback", args |-> <<callback>>]
    /\ UNCHANGED <<g_driveActionCallback, attached, crashed, staleUse,
                   driverVars, raceVars, g_jvm>>

registerDriveActionCallbackNative(callback, ok) ==
    /\ ~crashed
    /\ (callback # NULL /\ ok) => Len(globalRefs) < MaxRefs
    /\ g_driveActionCallback' = SlotAfterRegister(g_driveActionCallback, callback, ok)
    /\ globalRefs' = RefsAfterRegister(g_driveActionCallback, callback, ok)
    /\ jniTrace' = TraceOfRegister(g_driveActionCallback, callback, ok)
    /\ pre' = Snapshot
    /\ lastReg' = [lastReg EXCEPT !.da = callback]
    /\ lastCall' = [op |-> "registerDriveActionCallback", args |-> <<callback>>]
    /\ UNCHANGED <<g_limitSwitchCallback, attached, crashed, staleUse,
                   driverVars, raceVars, g_jvm>>

\* what GetEnv may report to the driver's thread
GetEnvResults ==
    IF attached THEN {"JNI_OK", "JNI_EVERSION"} ELSE {"JNI_EDETACHED", "JNI_EVERSION"}

AttachResults == {"JNI_OK", "JNI_ERR"}

\* JNIEnv *getJNIEnv(): whether a valid env comes back, the JavaVM calls
\* made, and whether the thread is attached afterwards
getJNIEnv(res, attachRes) ==
    IF g_jvm = NULL
    THEN [env |-> FALSE, jni |-> <<>>, att |-> attached]
    ELSE IF res = "JNI_EDETACHED"
         THEN [env |-> attachRes = "JNI_OK",
               jni |-> <<J("GetEnv", NULL, res), J("AttachCurrentThread", NULL, attachRes)>>,
               att |-> attached \/ attachRes = "JNI_OK"]
         ELSE [env |-> res = "JNI_OK",
               jni |-> <<J("GetEnv", NULL, res)>>,
               att |-> attached]

\* the body shared by notifyLimitSwitchTriggered and notifyDriveAction, on
\* the slot value `slot` and the method name `method`.  A call through the
\* null JNIEnv loads the function table from address 0: the process dies.
Notify(slot, method, res, attachRes) ==
    IF slot = NULL \/ g_jvm = NULL
    THEN /\ jniTrace' = <<>>
         /\ UNCHANGED <<attached, crashed, staleUse>>
    ELSE LET e == getJNIEnv(res, attachRes) IN
         IF ~e.env
         THEN /\ jniTrace' = e.jni \o <<J("GetObjectClass", slot, "null JNIEnv")>>
              /\ crashed' = TRUE
              /\ attached' = e.att
              /\ UNCHANGED staleUse
         ELSE LET found == method \in MethodsOf(globalRefs[slot].obj)
                  stale == globalRefs[slot].deletes > 0
              IN  /\ jniTrace' = e.jni
                        \o <<J("GetObjectClass", slot, "class"),
                             J("GetMethodID", NULL, IF found THEN method ELSE "NULL")>>
                        \o (IF found THEN <<J("CallVoidMethod", slot, method)>> ELSE <<>>)
                  /\ attached' = e.att
                  /\ staleUse' = staleUse \cup
                        (IF stale
                         THEN {"GetObjectClass"} \cup
                              (IF found THEN {"CallVoidMethod"} ELSE {})
                         ELSE {})
                  /\ UNCHANGED crashed

notifyLimitSwitchTriggered(res, attachRes) ==
    /\ ~crashed
    /\ Notify(g_limitSwitchCallback, "onLimitSwitchTriggered", res, attachRes)
    /\ pre' = Snapshot
    /\ lastCall' = [op |-> "notifyLimitSwitchTriggered", args |-> <<>>]
    /\ UNCHANGED <<g_limitSwitchCallback, g_driveActionCallback, globalRefs, lastReg,
                   driverVars, raceVars, g_jvm>>

notifyDriveAction_wrongSlot(res, attachRes) ==
    /\ ~crashed
    /\ Notify(g_limitSwitchCallback, "onDriveAction", res, attachRes)
    /\ pre' = Snapshot
    /\ lastCall' = [op |-> "notifyDriveAction", args |-> <<>>]
    /\ UNCHANGED <<g_limitSwitchCallback, g_driveActionCallback, globalRefs, lastReg,
                   driverVars, raceVars, g_jvm>>

notifyDriveAction(res, attachRes) ==
    /\ ~crashed
    /\ Notify(g_driveActionCallback, "onDriveAction", res, attachRes)
    /\ pre' = Snapshot
    /\ lastCall' = [op |-> "notifyDriveAction", args |-> <<>>]
    /\ UNCHANGED <<g_limitSwitchCallback, g_driveActionCallback, globalRefs, lastReg,
                   driverVars, raceVars, g_jvm>>

(* The callback surface, calls serialized: register calls from managed
   threads and notifications from the driver's thread, each running to
   completion, next to the 2-wheel initializer *)
NextCb ==
    \/ JNI_OnLoad
    \/ \E cb \in Objs \cup {NULL}, ok \in BOOLEAN :
          registerLimitSwitchCallbackNative(cb, ok)
    \/ \E cb \in Objs \cup {NULL}, ok \in BOOLEAN :
          registerDriveActionCallbackNative(cb, ok)
    \/ \E res \in GetEnvResults, a \in AttachResults : notifyLimitSwitchTriggered(res, a)
    \/ \E res \in GetEnvResults, a \in AttachResults : notifyDriveAction(res, a)
    \/ initDifferentialDriveBase2WheelNative(5, 30, 1, 2)

SpecCb == Init /\ [][NextCb]_vars

----------------------------------------------------------------------------
(* The target type of each argument's static_cast, per entry point *)
ParamKinds ==
    [ initOmniDriveBase |-> <<"u8", "u16", "motor", "motor", "motor">>,
      initMecanumDriveBase |-> <<"u8", "u16", "u16", "motor", "motor", "motor", "motor">>,
      initDifferentialDriveBase2Wheel |-> <<"u8", "u16", "motor", "motor">>,
      initDifferentialDriveBase4Wheel |-> <<"u8", "u16", "motor", "motor", "motor", "motor">>,
      setLimitSwitches |-> <<"motor", "u8", "u8", "u8", "u8">>,
      setRPM |-> <<"motor", "s8">>,
      setSpeed |-> <<"motor", "s8">>,
      resetEncoder |-> <<"motor">>,
      getEncoder |-> <<"motor">>,
      getRPM |-> <<"motor">>,
      speedDrive |-> <<"u8", "u8", "u8">>,
      timeDrive |-> <<"u8", "u8", "u8", "u8">>,
      driveDistance |-> <<"u8", "u8", "u16">> ]

InitOps == {"initOmniDriveBase", "initMecanumDriveBase",
            "initDifferentialDriveBase2Wheel", "initDifferentialDriveBase4Wheel"}

\* the last entry point was a driver operation other than an initializer
LastIsDriverOp ==
    lastCall.op \in {"setPID", "setLimitSwitches", "setRPM", "setSpeed", "resetEncoder",
                     "stop", "speedDrive", "timeDrive", "driveDistance",
                     "getEncoder", "getRPM"}

----------------------------------------------------------------------------
(* Overlapping calls.  The bridge takes no lock and its globals are plain
   (non-atomic) variables, so calls on different threads interleave at the
   level of the single reads and writes of the globals.  A read of a global
   that the same call has read or written before may be served from the
   value the thread already holds (the compiler need not reload a plain
   variable): such reads choose between the two. *)
Managed == {"m1", "m2"}

\* the values a thread may obtain when it evaluates a global again
Reread(t, global) == {global, loc[t].ptr}

\* the arguments the initializer `op` hands over for wheel radius 5,
\* distance 30 and the motors 0..3
InitArgs(op) ==
    CASE op = "initOmniDriveBase" ->
            <<U8(5), U16(30), ToMotor(0), ToMotor(1), ToMotor(2)>>
      [] op = "initMecanumDriveBase" ->
            <<U8(5), U16(30), U16(30), ToMotor(0), ToMotor(1), ToMotor(2), ToMotor(3)>>
      [] op = "initDifferentialDriveBase2Wheel" ->
            <<U8(5), U16(30), ToMotor(0), ToMotor(1)>>
      [] OTHER ->
            <<U8(5), U16(30), ToMotor(0), ToMotor(1), ToMotor(2), ToMotor(3)>>

\* a managed thread enters one of the four initializers
InitBegin(t, op) ==
    /\ ~crashed
    /\ pc[t] = "idle"
    /\ calls < MaxRaceCalls
    /\ calls' = calls + 1
    /\ initCalls' = initCalls + 1
    /\ pc' = [pc EXCEPT ![t] = "test"]
    /\ loc' = [loc EXCEPT ![t] = [op |-> op, ptr |-> NULL, cb |-> NULL]]
    /\ lastCall' = [op |-> op, args |-> <<>>]
    /\ UNCHANGED <<g_amcu, constructed, driverCalls, driverCall, ret, cbVars, g_jvm>>

\* if (!g_amcu)
InitTest(t) ==
    /\ pc[t] = "test"
    /\ pc' = [pc EXCEPT ![t] = IF g_amcu = NULL THEN "new" ELSE "config"]
    /\ loc' = [loc EXCEPT ![t].ptr = g_amcu]
    /\ UNCHANGED <<driverVars, cbVars, g_jvm, lastCall>>

\* new AMCU()
InitNew(t) ==
    /\ pc[t] = "new"
    /\ constructed' = constructed + 1
    /\ loc' = [loc EXCEPT ![t].ptr = constructed + 1]
    /\ pc' = [pc EXCEPT ![t] = "store"]
    /\ UNCHANGED <<g_amcu, driverCalls, driverCall, calls, initCalls, ret,
                   cbVars, g_jvm, lastCall>>

\* g_amcu = <the new instance>
InitStore(t) ==
    /\ pc[t] = "store"
    /\ g_amcu' = loc[t].ptr
    /\ pc' = [pc EXCEPT ![t] = "config"]
    /\ UNCHANGED <<constructed, driverCalls, driverCall, calls, initCalls, ret,
                   cbVars, loc, g_jvm, lastCall>>

\* g_amcu->init...(...), on the instance the thread reads or still holds
InitConfig(t, target) ==
    /\ pc[t] = "config"
    /\ target \in Reread(t, g_amcu)
    /\ driverCall' = [inst |-> target, op |-> loc[t].op, args |-> InitArgs(loc[t].op)]
    /\ driverCalls' = driverCalls + 1
    /\ pc' = [pc EXCEPT ![t] = "idle"]
    /\ loc' = [loc EXCEPT ![t].ptr = target]
    /\ UNCHANGED <<g_amcu, constructed, calls, initCalls, ret, cbVars, g_jvm, lastCall>>

(* Initializer calls of two managed threads, interleaved *)
NextInitRace ==
    \/ \E t \in Managed, op \in InitOps : InitBegin(t, op)
    \/ \E t \in Managed : InitTest(t)
    \/ \E t \in Managed : InitNew(t)
    \/ \E t \in Managed : InitStore(t)
    \/ \E t \in Managed, target \in 1..MaxRaceCalls : InitConfig(t, target)

SpecInitRace == Init /\ [][NextInitRace]_vars

(* Register calls of managed threads interleaved with notifications on the
   driver's thread.  loc[t].op is the slot the call works on. *)
SlotNames == {"ls", "da"}

SlotVal(s) == IF s = "ls" THEN g_limitSwitchCallback ELSE g_driveActionCallback

\* slot s = v, the other slot untouched
SetSlot(s, v) ==
    /\ g_limitSwitchCallback' = IF s = "ls" THEN v ELSE g_limitSwitchCallback
    /\ g_driveActionCallback' = IF s = "da" THEN v ELSE g_driveActionCallback

MethodOfSlot(s) == IF s = "ls" THEN "onLimitSwitchTriggered" ELSE "onDriveAction"

Released(r) == r \in 1..Len(globalRefs) /\ globalRefs[r].deletes > 0

\* a managed thread enters register*CallbackNative
RegBegin(t, s, callback) ==
    /\ ~crashed
    /\ pc[t] = "idle"
    /\ calls < MaxRaceCalls
    /\ calls' = calls + 1
    /\ pc' = [pc EXCEPT ![t] = "rtest"]
    /\ loc' = [loc EXCEPT ![t] = [op |-> s, ptr |-> NULL, cb |-> callback]]
    /\ lastReg' = [lastReg EXCEPT ![s] = callback]
    /\ UNCHANGED <<g_amcu, constructed, driverCalls, driverCall, initCalls, ret,
                   g_limitSwitchCallback, g_driveActionCallback, globalRefs, jniTrace,
                   attached, crashed, pre, staleUse, g_jvm, lastCall>>

\* if (g_cb)
RegTest(t) ==
    /\ ~crashed
    /\ pc[t] = "rtest"
    /\ pc' = [pc EXCEPT ![t] = IF SlotVal(loc[t].op) # NULL THEN "rdel" ELSE "rnew"]
    /\ loc' = [loc EXCEPT ![t].ptr = SlotVal(loc[t].op)]
    /\ UNCHANGED <<driverVars, cbVars, g_jvm, lastCall>>

\* env->DeleteGlobalRef(g_cb); of NULL it is a no-op
RegDelete(t, r) ==
    /\ ~crashed
    /\ pc[t] = "rdel"
    /\ r \in Reread(t, SlotVal(loc[t].op))
    /\ globalRefs' = IF r = NULL THEN globalRefs
                     ELSE [globalRefs EXCEPT ![r].deletes = @ + 1]
    /\ pc' = [pc EXCEPT ![t] = "rclear"]
    /\ UNCHANGED <<driverVars, g_limitSwitchCallback, g_driveActionCallback, jniTrace,
                   attached, crashed, pre, lastReg, staleUse, loc, g_jvm, lastCall>>

\* g_cb = nullptr;
RegClear(t) ==
    /\ ~crashed
    /\ pc[t] = "rclear"
    /\ SetSlot(loc[t].op, NULL)
    /\ pc' = [pc EXCEPT ![t] = "rnew"]
    /\ UNCHANGED <<driverVars, globalRefs, jniTrace, attached, crashed, pre, lastReg,
                   staleUse, loc, g_jvm, lastCall>>

\* if (callback) ... env->NewGlobalRef(callback)
RegNew(t, ok) ==
    /\ ~crashed
    /\ pc[t] = "rnew"
    /\ (loc[t].cb # NULL /\ ok) => Len(globalRefs) < MaxRefs
    /\ IF loc[t].cb = NULL
       THEN /\ pc' = [pc EXCEPT ![t] = "idle"]
            /\ UNCHANGED <<globalRefs, loc>>
       ELSE /\ pc' = [pc EXCEPT ![t] = "rstore"]
            /\ globalRefs' = IF ok
                             THEN Append(globalRefs, [obj |-> loc[t].cb, deletes |-> 0])
                             ELSE globalRefs
            /\ loc' = [loc EXCEPT ![t].ptr = IF ok THEN Len(globalRefs) + 1 ELSE NULL]
    /\ UNCHANGED <<driverVars, g_limitSwitchCallback, g_driveActionCallback, jniTrace,
                   attached, crashed, pre, lastReg, staleUse, g_jvm, lastCall>>

\* g_cb = <the new global reference>
RegStore(t) ==
    /\ ~crashed
    /\ pc[t] = "rstore"
    /\ SetSlot(loc[t].op, loc[t].ptr)
    /\ pc' = [pc EXCEPT ![t] = "idle"]
    /\ UNCHANGED <<driverVars, globalRefs, jniTrace, attached, crashed, pre, lastReg,
                   staleUse, loc, g_jvm, lastCall>>

\* the driver's thread enters a notifier
NotBegin(s) ==
    /\ ~crashed
    /\ pc["drv"] = "idle"
    /\ pc' = [pc EXCEPT !["drv"] = "ntest"]
    /\ loc' = [loc EXCEPT !["drv"] = [op |-> s, ptr |-> NULL, cb |-> NULL]]
    /\ UNCHANGED <<driverVars, cbVars, g_jvm, lastCall>>

\* if (!g_cb || !g_jvm) return;
NotTest ==
    /\ ~crashed
    /\ pc["drv"] = "ntest"
    /\ pc' = [pc EXCEPT !["drv"] =
                 IF SlotVal(loc["drv"].op) = NULL \/ g_jvm = NULL THEN "idle" ELSE "nenv"]
    /\ loc' = [loc EXCEPT !["drv"].ptr = SlotVal(loc["drv"].op)]
    /\ UNCHANGED <<driverVars, cbVars, g_jvm, lastCall>>

\* JNIEnv *env = getJNIEnv();
NotEnv(res, attachRes) ==
    /\ ~crashed
    /\ pc["drv"] = "nenv"
    /\ LET e == getJNIEnv(res, attachRes) IN
          /\ attached' = e.att
          /\ pc' = [pc EXCEPT !["drv"] = IF e.env THEN "ncls" ELSE "nullenv"]
    /\ UNCHANGED <<driverVars, g_limitSwitchCallback, g_driveActionCallback, globalRefs,
                   jniTrace, crashed, pre, lastReg, staleUse, loc, g_jvm, lastCall>>

\* env->GetObjectClass(g_cb) through the null env: the process dies
NotNullEnv ==
    /\ ~crashed
    /\ pc["drv"] = "nullenv"
    /\ crashed' = TRUE
    /\ UNCHANGED <<driverVars, g_limitSwitchCallback, g_driveActionCallback, globalRefs,
                   jniTrace, attached, pre, lastReg, staleUse, raceVars, g_jvm, lastCall>>

\* jclass cbClass = env->GetObjectClass(g_cb); of NULL or of a released
\* reference the call is undefined: it may kill the process (`dies`), or
\* answer with the class of the object the reference stood for
NotClass(r, dies) ==
    /\ ~crashed
    /\ pc["drv"] = "ncls"
    /\ r \in Reread("drv", SlotVal(loc["drv"].op))
    /\ staleUse' = staleUse \cup (IF Released(r) THEN {"GetObjectClass"} ELSE {})
    /\ crashed' = (r = NULL \/ (Released(r) /\ dies))
    /\ loc' = [loc EXCEPT !["drv"].cb = IF r = NULL THEN NULL ELSE globalRefs[r].obj]
    /\ pc' = [pc EXCEPT !["drv"] = "nmid"]
    /\ UNCHANGED <<driverVars, g_limitSwitchCallback, g_driveActionCallback, globalRefs,
                   jniTrace, attached, pre, lastReg, g_jvm, lastCall>>

\* jmethodID mid = env->GetMethodID(cbClass, "...", "()V"); if (mid)
NotMethod ==
    /\ ~crashed
    /\ pc["drv"] = "nmid"
    /\ pc' = [pc EXCEPT !["drv"] =
                 IF MethodOfSlot(loc["drv"].op) \in MethodsOf(loc["drv"].cb)
                 THEN "ncall" ELSE "idle"]
    /\ UNCHANGED <<driverVars, cbVars, loc, g_jvm, lastCall>>

\* env->CallVoidMethod(g_cb, mid);
NotCall(r, dies) ==
    /\ ~crashed
    /\ pc["drv"] = "ncall"
    /\ r \in Reread("drv", SlotVal(loc["drv"].op))
    /\ staleUse' = staleUse \cup (IF Released(r) THEN {"CallVoidMethod"} ELSE {})
    /\ crashed' = (r = NULL \/ (Released(r) /\ dies))
    /\ pc' = [pc EXCEPT !["drv"] = "idle"]
    /\ UNCHANGED <<driverVars, g_limitSwitchCallback, g_driveActionCallback, globalRefs,
                   jniTrace, attached, pre, lastReg, loc, g_jvm, lastCall>>

(* Register calls and notifications, interleaved *)
NextCbRace ==
    \/ JNI_OnLoad
    \/ \E t \in Managed, s \in SlotNames, cb \in Objs \cup {NULL} : RegBegin(t, s, cb)
    \/ \E t \in Managed : RegTest(t)
    \/ \E t \in Managed, r \in 0..MaxRefs : RegDelete(t, r)
    \/ \E t \in Managed : RegClear(t)
    \/ \E t \in Managed, ok \in BOOLEAN : RegNew(t, ok)
    \/ \E t \in Managed : RegStore(t)
    \/ \E s \in SlotNames : NotBegin(s)
    \/ NotTest
    \/ \E res \in GetEnvResults, a \in AttachResults : NotEnv(res, a)
    \/ NotNullEnv
    \/ \E r \in 0..MaxRefs, dies \in BOOLEAN : NotClass(r, dies)
    \/ NotMethod
    \/ \E r \in 0..MaxRefs, dies \in BOOLEAN : NotCall(r, dies)

SpecCbRace == Init /\ [][NextCbRace]_vars

----------------------------------------------------------------------------
(* C1: while no topology initializer has been called, the driver operations
   have made no call on a driver, no driver instance exists, the singleton
   is absent, and getEncoder and getRPM have returned 0. *)
C1_NoInitNoDriverEffect ==
    initCalls = 0 =>
        /\ driverCalls = 0
        /\ driverCall = NoCall
        /\ g_amcu = NULL
        /\ constructed = 0
        /\ lastCall.op \in {"getEncoder", "getRPM"} => ret = 0

\* two operations ran before any initializer, the last one a read
C1_Witness ==
    /\ initCalls = 0
    /\ calls >= 2
    /\ lastCall.op = "getRPM"
    /\ ret = 0

(* C2: in a serialized sequence of initializer calls exactly one driver
   instance has been constructed once the first call is over (none before),
   the singleton pointer is that first instance ever after, and each
   initializer call ends with its own topology's configurator having been
   called on that instance. *)
C2_SingleInstance ==
    /\ initCalls = 0 => constructed = 0 /\ g_amcu = NULL
    /\ initCalls >= 1 => constructed = 1 /\ g_amcu = 1
    /\ lastCall.op \in InitOps =>
          /\ driverCall.inst = g_amcu
          /\ driverCall.op = lastCall.op
          /\ driverCalls >= initCalls

\* a second (or later) initializer call, of the mecanum topology, has run
C2_Witness ==
    /\ initCalls >= 2
    /\ lastCall.op = "initMecanumDriveBase"
    /\ driverCall.op = "initMecanumDriveBase"
    /\ constructed = 1

\* `out` is `x` narrowed to the type `kind`: in the type's range and
\* congruent to x modulo 2^width (which determines it uniquely)
IsNarrowed(kind, x, out) ==
    CASE kind = "u8"  -> out \in 0..255 /\ out % 256 = x % 256
      [] kind = "s8"  -> out \in -128..127 /\ out % 256 = x % 256
      [] kind = "u16" -> out \in 0..65535 /\ out % 65536 = x % 65536
      [] OTHER        -> out = x

(* C6: whenever an entry point has handed arguments to the driver, each
   handed value is determined by the corresponding jint input alone: it is
   the input reduced modulo 2^8 (range 0..255) for uint8_t parameters,
   modulo 2^16 (range 0..65535) for uint16_t parameters, and the signed
   8-bit value in -128..127 congruent to the input for setRPM's rpm and
   setSpeed's percent. *)
C6_NarrowingIsPure ==
    (g_amcu # NULL /\ lastCall.op \in DOMAIN ParamKinds) =>
        /\ driverCall.op = lastCall.op
        /\ Len(driverCall.args) = Len(lastCall.args)
        /\ \A i \in 1..Len(lastCall.args) :
              IsNarrowed(ParamKinds[lastCall.op][i], lastCall.args[i],
                         driverCall.args[i])

\* setSpeed was handed a percent above the signed 8-bit range, and wrapped
C6_Witness ==
    /\ g_amcu # NULL
    /\ lastCall.op = "setSpeed"
    /\ lastCall.args[2] = 128
    /\ driverCall.op = "setSpeed"
    /\ driverCall.args[2] = -128

\* positions of the speed / percent / axis arguments
SpeedArgs ==
    [ setSpeed |-> {2}, setRPM |-> {2}, speedDrive |-> {1, 2, 3},
      timeDrive |-> {1, 2, 3} ]

(* C7: for setSpeed, setRPM, speedDrive and timeDrive every speed, percent
   or axis input in -128..127 reaches the driver with the same sign and
   value. *)
C7_SignedAxisPreserved ==
    (g_amcu # NULL /\ lastCall.op \in DOMAIN SpeedArgs) =>
        \A i \in SpeedArgs[lastCall.op] :
            lastCall.args[i] \in -128..127 =>
                driverCall.args[i] = lastCall.args[i]

----------------------------------------------------------------------------
(* Reading the JNI calls of the last bridge function *)
TraceCount(fn) == Cardinality({i \in 1..Len(jniTrace) : jniTrace[i].fn = fn})

Live(r) == r \in 1..Len(globalRefs) /\ globalRefs[r].deletes = 0

\* the register call on a slot that held `held` released it exactly once,
\* first, before creating any new reference
ReleasedFirst(held) ==
    held # NULL =>
        /\ Len(jniTrace) >= 1
        /\ jniTrace[1] = J("DeleteGlobalRef", held, "released")
        /\ TraceCount("DeleteGlobalRef") = 1
        /\ globalRefs[held].deletes = 1

(* C3: in a serialized sequence of register calls on the two slots, a
   register call on a slot that holds a reference releases that reference
   exactly once and before it creates the new one; no reference is released
   twice; every global reference created is either held in a slot or
   released. *)
C3_ReleaseOnceNoLeak ==
    /\ \A r \in 1..Len(globalRefs) :
          /\ globalRefs[r].deletes <= 1
          /\ globalRefs[r].deletes = 0 <=>
                r \in {g_limitSwitchCallback, g_driveActionCallback}
    /\ \A h \in {g_limitSwitchCallback, g_driveActionCallback} :
          h # NULL => h \in 1..Len(globalRefs)
    /\ g_limitSwitchCallback # NULL => g_limitSwitchCallback # g_driveActionCallback
    /\ lastCall.op = "registerLimitSwitchCallback" => ReleasedFirst(pre.ls)
    /\ lastCall.op = "registerDriveActionCallback" => ReleasedFirst(pre.da)

\* a listener was replaced by another: the old reference is released, the
\* new one is held
C3_Witness ==
    /\ lastCall.op = "registerLimitSwitchCallback"
    /\ pre.ls # NULL
    /\ lastCall.args[1] # NULL
    /\ Len(jniTrace) = 2
    /\ jniTrace[2].fn = "NewGlobalRef"
    /\ Live(g_limitSwitchCallback)
    /\ g_limitSwitchCallback # pre.ls

NotifyOps == {"notifyLimitSwitchTriggered", "notifyDriveAction"}

(* C4: a notification delivered while its slot is empty (nothing was ever
   registered there, or the latest register call on it passed null) makes no
   managed-runtime call at all and returns normally. *)
C4_EmptySlotNoRuntimeCall ==
    /\ (lastCall.op = "notifyLimitSwitchTriggered"
          /\ (pre.ls = NULL \/ lastReg.ls = NULL)) =>
             jniTrace = <<>> /\ ~crashed
    /\ (lastCall.op = "notifyDriveAction"
          /\ (pre.da = NULL \/ lastReg.da = NULL)) =>
             jniTrace = <<>> /\ ~crashed

\* a notification arrived, with the VM loaded, on a slot that had held a
\* listener and was cleared by a register call with null
C4_Witness ==
    /\ lastCall.op = "notifyLimitSwitchTriggered"
    /\ g_jvm # NULL
    /\ lastReg.ls = NULL
    /\ g_limitSwitchCallback = NULL
    /\ \E r \in 1..Len(globalRefs) : globalRefs[r].obj = 11 /\ globalRefs[r].deletes = 1
    /\ jniTrace = <<>>

\* the last notification failed to obtain a JNIEnv
EnvFailed ==
    \E i \in 1..Len(jniTrace) :
        \/ jniTrace[i].fn = "GetEnv" /\ jniTrace[i].info = "JNI_EVERSION"
        \/ jniTrace[i].fn = "AttachCurrentThread" /\ jniTrace[i].info = "JNI_ERR"

\* the last notification could not resolve the listener method
MethodUnresolved ==
    \E i \in 1..Len(jniTrace) :
        jniTrace[i].fn = "GetMethodID" /\ jniTrace[i].info = "NULL"

(* C5: a notification with a listener registered whose JNIEnv could not be
   obtained (GetEnv fails with another error than detached, or
   AttachCurrentThread fails) or whose listener method does not resolve
   makes no JNIEnv call through the invalid environment, invokes no listener
   method, and returns normally (the process does not crash). *)
C5_PlumbingFailureIsSilent ==
    (lastCall.op \in NotifyOps /\ (EnvFailed \/ MethodUnresolved)) =>
        /\ ~crashed
        /\ TraceCount("CallVoidMethod") = 0
        /\ EnvFailed => TraceCount("GetObjectClass") = 0

\* the last notification resolved its method
MethodResolved ==
    \E i \in 1..Len(jniTrace) :
        jniTrace[i].fn = "GetMethodID" /\ jniTrace[i].info # "NULL"

\* exactly one CallVoidMethod, of `method`, on the live reference `slot`,
\* which refers to the object `listener`
DeliveredTo(slot, method, listener) ==
    /\ TraceCount("CallVoidMethod") = 1
    /\ jniTrace[Len(jniTrace)] = J("CallVoidMethod", slot, method)
    /\ Live(slot)
    /\ globalRefs[slot].obj = listener

(* C8: a register or clear call on one slot leaves the other slot's
   reference and the driver singleton as they were; a notification whose
   slot is non-empty and whose method resolves invokes exactly one method,
   its own slot's, on the listener most recently registered in its own
   slot. *)
C8_SlotsIndependent ==
    /\ lastCall.op = "registerLimitSwitchCallback" =>
          g_driveActionCallback = pre.da /\ g_amcu = pre.amcu
    /\ lastCall.op = "registerDriveActionCallback" =>
          g_limitSwitchCallback = pre.ls /\ g_amcu = pre.amcu
    /\ (lastCall.op = "notifyLimitSwitchTriggered" /\ pre.ls # NULL /\ MethodResolved) =>
          DeliveredTo(g_limitSwitchCallback, "onLimitSwitchTriggered", lastReg.ls)
    /\ (lastCall.op = "notifyDriveAction" /\ pre.da # NULL /\ MethodResolved) =>
          DeliveredTo(g_driveActionCallback, "onDriveAction", lastReg.da)

\* both slots hold a listener, the drive-action one a replacement, the
\* driver exists, and a drive-action notification was delivered
C8_Witness ==
    /\ lastCall.op = "notifyDriveAction"
    /\ g_amcu # NULL
    /\ Live(g_limitSwitchCallback)
    /\ Live(g_driveActionCallback)
    /\ \E r \in 1..Len(globalRefs) :
          globalRefs[r].deletes = 1 /\ r < g_driveActionCallback
    /\ MethodResolved
    /\ TraceCount("CallVoidMethod") = 1

----------------------------------------------------------------------------
(* C9: when initializer calls of two threads overlap, with their steps
   interleaved in any way, at most one driver instance is ever constructed
   and every configuration call is applied to that one instance. *)
C9_OneInstanceWhenOverlapping ==
    /\ constructed <= 1
    /\ driverCall.op \in InitOps => driverCall.inst = 1

(* C10: when register calls overlap with each other and with a
   notification, no released reference is ever handed to GetObjectClass or
   CallVoidMethod, and no reference is released twice. *)
C10_NoUseAfterRelease ==
    /\ staleUse = {}
    /\ \A r \in 1..Len(globalRefs) : globalRefs[r].deletes <= 1

====
